---- MODULE Spec2Model ----
(***************************************************************************)
(* Batch client of src/batch_test.py: main reads query.txt, thread_chat    *)
(* submits one chat task per query to a thread pool, chat retries the      *)
(* client call with exponential backoff, and main drains the outcome       *)
(* stream into result.txt and failed_queries.txt.                          *)
(*                                                                         *)
(* Strings whose content the code inspects or rewrites (lines, queries,    *)
(* answers) are sequences of one-character strings.                        *)
(***************************************************************************)
EXTENDS Integers, Sequences, FiniteSets, TLC

\* ------------------------------------------------------------------ bounds
\* Longest input file, in lines.
MaxLines == 2
\* Largest pool size thread_chat is run with.
MaxWorkers == 2

\* Longest answer write_result is tried on, in characters.
MaxAnswerLen == 3

\* chat's default max_retries (the only value thread_chat calls it with).
max_retries == 3

\* ------------------------------------------------------------ input domains
\* Lines an input file is made of: two queries, one with trailing blank, and
\* a whitespace-only line.
Lines == { <<"a">>, <<"b", " ">>, <<" ">> }

RECURSIVE SeqsUpTo(_, _)
SeqsUpTo(S, n) ==
    IF n = 0 THEN { <<>> }
    ELSE LET shorter == SeqsUpTo(S, n - 1)
         IN  shorter \cup { Append(s, x) : s \in { r \in shorter : Len(r) = n - 1 }, x \in S }

\* query.txt: missing, or any file of at most MaxLines lines.
Files ==
    { [exists |-> FALSE, lines |-> <<>>] }
    \cup { [exists |-> TRUE, lines |-> l] : l \in SeqsUpTo(Lines, MaxLines) }

\* Values of the "answer" field of a 200 response body.
Answers == { <<>>, <<" ">>, <<"x">> }

\* What one HTTP exchange of run_chat can end in: status 0 stands for a
\* transport error (requests.post raises), otherwise the status code and,
\* for a 200, the parsed JSON body (with or without an "answer" key).
Responses ==
    { [status |-> 0,   has_answer |-> FALSE, answer |-> <<>>],
      [status |-> 500, has_answer |-> FALSE, answer |-> <<>>],
      [status |-> 200, has_answer |-> FALSE, answer |-> <<>>] }
    \cup { [status |-> 200, has_answer |-> TRUE, answer |-> a] : a \in Answers }

NoResponse == [status |-> -1, has_answer |-> FALSE, answer |-> <<>>]

\* ---------------------------------------------------------- string helpers
IsSpace(c) == c \in {" ", "\n"}

RECURSIVE LStrip(_)
LStrip(s) == IF s # <<>> /\ IsSpace(Head(s)) THEN LStrip(Tail(s)) ELSE s

RECURSIVE RStrip(_)
RStrip(s) ==
    IF s # <<>> /\ IsSpace(s[Len(s)]) THEN RStrip(SubSeq(s, 1, Len(s) - 1)) ELSE s

\* str.strip()
Strip(s) == RStrip(LStrip(s))

\* str.replace(c, "")
RECURSIVE Remove(_, _)
Remove(s, c) ==
    IF s = <<>> THEN <<>>
    ELSE IF Head(s) = c THEN Remove(Tail(s), c)
    ELSE <<Head(s)>> \o Remove(Tail(s), c)

RECURSIVE Pow2(_)
Pow2(n) == IF n = 0 THEN 1 ELSE 2 * Pow2(n - 1)

\* -------------------------------------------------------------------- state
VARIABLES
    file,             \* query.txt
    dify_api_key,     \* the environment variable DIFY_API_KEY
    client,           \* the DifyClient thread_chat builds and shares
    max_workers,      \* thread_chat's pool size
    mpc,              \* where main is
    query_list,       \* read_txt's result
    nsub,             \* tasks submitted to the executor so far
    tpc,              \* per task: idle, queued, call, sleep, returned, raised
    attempt,          \* per task: chat's loop variable
    calls,            \* per task: client calls made
    sleeps,           \* per task: the sleeps taken, in order
    last,             \* per task: the client's last response
    usable,           \* per task: per attempt, was the answer non-empty
    result,           \* per task: chat's return value
    yielded,          \* the outcomes thread_chat has yielded, in order
    cur,              \* the outcome main's loop body is handling
    error_info,       \* thread_chat's error_info dict
    sink,             \* result.txt, as lines
    sink_open,        \* result.txt is open for writing
    success_count,
    error_query_list,
    wlog,             \* per outcome main handled: write_result's return, or "none"
    failed_file,      \* failed_queries.txt
    summary           \* show_completion_notification's arguments

vars == << file, dify_api_key, client, max_workers, mpc, query_list, nsub, tpc, attempt, calls, sleeps,
           last, usable, result, yielded, cur, error_info, sink, sink_open,
           success_count, error_query_list, wlog, failed_file, summary >>

taskVars == << tpc, attempt, calls, sleeps, last, usable, result >>
mainVars == << sink, sink_open, success_count, error_query_list, wlog, failed_file, summary >>

Tasks == 1 .. MaxLines
N == Len(query_list)

NoOutcome == [q |-> <<>>, r |-> <<>>, success |-> FALSE, task |-> 0]
NoResult  == [q |-> <<>>, r |-> <<>>, success |-> FALSE, set |-> FALSE]
NotWritten == [written |-> FALSE, count |-> 0, body |-> <<>>]
NoSummary == [shown |-> FALSE, total |-> 0, succeeded |-> 0, failed |-> 0]

\* DIFY_API_KEY: not set, or set to a key.
Unset == "<unset>"
SetKey == "app-key"
NoClient == [api_key |-> "<none>"]

\* The state main starts in, whatever DIFY_API_KEY is.
InitBase ==
    /\ file \in Files
    /\ client = NoClient
    /\ max_workers \in 1 .. MaxWorkers
    /\ mpc = "read"
    /\ query_list = <<>>
    /\ nsub = 0
    /\ tpc = [t \in Tasks |-> "idle"]
    /\ attempt = [t \in Tasks |-> 0]
    /\ calls = [t \in Tasks |-> 0]
    /\ sleeps = [t \in Tasks |-> <<>>]
    /\ last = [t \in Tasks |-> NoResponse]
    /\ usable = [t \in Tasks |-> <<>>]
    /\ result = [t \in Tasks |-> NoResult]
    /\ yielded = <<>>
    /\ cur = NoOutcome
    /\ error_info = {}
    /\ sink = <<>>
    /\ sink_open = FALSE
    /\ success_count = 0
    /\ error_query_list = <<>>
    /\ wlog = <<>>
    /\ failed_file = NotWritten
    /\ summary = NoSummary

\* A run with the API key configured.
Init == InitBase /\ dify_api_key = SetKey

\* A run with or without the API key in the environment.
InitCred == InitBase /\ dify_api_key \in { Unset, SetKey }

\* ------------------------------------------------------------------ read_txt
\* The comprehension of read_txt: strip every line, keep the non-empty ones.
RECURSIVE FilterLines(_)
FilterLines(ls) ==
    IF ls = <<>> THEN <<>>
    ELSE IF Strip(Head(ls)) # <<>>
         THEN <<Strip(Head(ls))>> \o FilterLines(Tail(ls))
         ELSE FilterLines(Tail(ls))

\* Mutant: the check for an empty query list is missing.
read_txt_raises_missing(f) == ~f.exists

\* read_txt raises: the file is missing, or nothing is left after filtering.
read_txt_raises(f) == ~f.exists \/ FilterLines(f.lines) = <<>>

\* main, step 1: read_txt("query.txt"); an exception ends main in its handler.
ReadTxt ==
    /\ mpc = "read"
    /\ IF read_txt_raises(file)
       THEN /\ mpc' = "aborted"
            /\ UNCHANGED query_list
       ELSE /\ query_list' = FilterLines(file.lines)
            /\ mpc' = "open"
    /\ UNCHANGED << file, dify_api_key, client, max_workers, nsub, yielded, cur, error_info >>
    /\ UNCHANGED taskVars
    /\ UNCHANGED mainVars

Line(tag, text, n) == [tag |-> tag, text |-> text, n |-> n]

\* main: open result.txt for writing and write the run header.
OpenResult ==
    /\ mpc = "open"
    /\ sink' = << Line("time", <<>>, 0), Line("total", <<>>, N), Line("rule", <<>>, 0) >>
    /\ sink_open' = TRUE
    /\ mpc' = "setup"
    /\ UNCHANGED << file, dify_api_key, client, max_workers, query_list, nsub, yielded, cur, error_info,
                    success_count, error_query_list, wlog, failed_file, summary >>
    /\ UNCHANGED taskVars

\* ---------------------------------------------------------------- DifyClient
\* run_chat: the parsed body of a 200 response; any other status, and any
\* exception of the exchange, gives the error dict, which has no "answer" key.
ErrorDict == [has_answer |-> FALSE, answer |-> <<>>]

run_chat(resp) ==
    IF resp.status = 200
    THEN [has_answer |-> resp.has_answer, answer |-> resp.answer]
    ELSE ErrorDict

\* dict.get("answer", "")
GetAnswer(d) == IF d.has_answer THEN d.answer ELSE <<>>

\* ---------------------------------------------------------------------- chat
\* What the comment above that test asks for: a non-empty, non-blank answer.
ValidAnswer(answer) == answer # <<>> /\ Strip(answer) # <<>>

\* Mutant: the test is `if answer`, without the strip.
UsableAnswer_nonempty(answer) == answer # <<>>

\* Mutant: chat returns whatever answer field the response carried.
UsableAnswer_any(answer) == TRUE

\* The test guarding chat's early return (`if False and answer and answer.strip()`).
UsableAnswer(answer) == FALSE /\ answer # <<>> /\ Strip(answer) # <<>>

\* `if attempt < max_retries - 1`: back off before the next attempt.
ShouldSleep(a) == a < max_retries - 1

\* Mutant: the loop runs one attempt too many.
InRange_offbyone(a) == a <= max_retries

\* `for attempt in range(max_retries)`: is a still in the range.
InRange(a) == a < max_retries

\* sleep_time = 2 ** attempt
sleep_time(a) == Pow2(a)

Running == { t \in Tasks : tpc[t] \in {"call", "sleep"} }
Queued == { t \in Tasks : tpc[t] = "queued" }
\* Mutant: a future that holds an exception never counts as done.
Finished_returned == { t \in Tasks : tpc[t] = "returned" }

\* The futures as_completed can hand out: done, with a result or an exception.
Finished == { t \in Tasks : tpc[t] \in {"returned", "raised"} }

Failure(t) == [q |-> query_list[t], r |-> <<>>, success |-> FALSE, set |-> TRUE]

\* The end of one loop iteration of chat for task t whose attempt failed and
\* whose backoff, if any, is over: the next attempt, or the final return.
LoopNext(t) ==
    IF InRange(attempt[t] + 1)
    THEN /\ attempt' = [attempt EXCEPT ![t] = @ + 1]
         /\ tpc' = [tpc EXCEPT ![t] = "call"]
         /\ UNCHANGED result
    ELSE /\ tpc' = [tpc EXCEPT ![t] = "returned"]
         /\ result' = [result EXCEPT ![t] = Failure(t)]
         /\ UNCHANGED attempt

\* Mutant: the pool starts a thread for every task.
SlotFree_always == TRUE

\* Mutant: a thread in its backoff sleep keeps the whole pool from starting
\* tasks.
SlotFree_nosleeper ==
    /\ Cardinality(Running) < max_workers
    /\ \A t \in Tasks : tpc[t] # "sleep"

\* ThreadPoolExecutor(max_workers): a thread is free to take a task.
SlotFree == Cardinality(Running) < max_workers

\* A pool thread takes the oldest queued task and enters chat.
Start(t) ==
    /\ t \in Queued
    /\ \A u \in Queued : t <= u
    /\ SlotFree
    /\ tpc' = [tpc EXCEPT ![t] = "call"]
    /\ UNCHANGED << file, dify_api_key, client, max_workers, mpc, query_list, nsub, yielded, cur, error_info,
                    attempt, calls, sleeps, last, usable, result >>
    /\ UNCHANGED mainVars

\* One attempt of chat: the client call and what chat does with its result.
Call(t) ==
    /\ tpc[t] = "call"
    /\ \E resp \in Responses :
         LET answer == GetAnswer(run_chat(resp))
         IN  /\ calls' = [calls EXCEPT ![t] = @ + 1]
             /\ last' = [last EXCEPT ![t] = resp]
             /\ usable' = [usable EXCEPT ![t] = Append(@, ValidAnswer(answer))]
             /\ IF UsableAnswer(answer)
                THEN /\ tpc' = [tpc EXCEPT ![t] = "returned"]
                     /\ result' = [result EXCEPT ![t] =
                            [q |-> query_list[t], r |-> answer, success |-> TRUE, set |-> TRUE]]
                     /\ UNCHANGED << attempt, sleeps >>
                ELSE IF ShouldSleep(attempt[t])
                THEN /\ tpc' = [tpc EXCEPT ![t] = "sleep"]
                     /\ sleeps' = [sleeps EXCEPT ![t] = Append(@, sleep_time(attempt[t]))]
                     /\ UNCHANGED << attempt, result >>
                ELSE /\ LoopNext(t)
                     /\ UNCHANGED sleeps
    /\ UNCHANGED << file, dify_api_key, client, max_workers, mpc, query_list, nsub, yielded, cur, error_info >>
    /\ UNCHANGED mainVars

\* client.run_chat(...) (or setup_dify_client(), for a missing client) raises.
ClientRaised == [status |-> -2, has_answer |-> FALSE, answer |-> <<>>]

\* The client returned something that is no dict of a response: json.loads
\* or result.get raises.
BadResult == [status |-> -3, has_answer |-> FALSE, answer |-> <<>>]

\* Mutant: chat catches the client's own exceptions only.
ChatCatches_narrow(m) == m # BadResult

\* `except Exception as e` around the whole attempt.
ChatCatches(m) == TRUE

\* One attempt of chat in which an exception is raised inside the try block.
CallRaises(t) ==
    /\ tpc[t] = "call"
    /\ \E m \in {ClientRaised, BadResult} :
         /\ calls' = [calls EXCEPT ![t] = @ + 1]
         /\ last' = [last EXCEPT ![t] = m]
         /\ usable' = [usable EXCEPT ![t] = Append(@, FALSE)]
         /\ IF ~ChatCatches(m)
            THEN /\ tpc' = [tpc EXCEPT ![t] = "raised"]
                 /\ UNCHANGED << attempt, sleeps, result >>
            ELSE IF ShouldSleep(attempt[t])
            THEN /\ tpc' = [tpc EXCEPT ![t] = "sleep"]
                 /\ sleeps' = [sleeps EXCEPT ![t] = Append(@, sleep_time(attempt[t]))]
                 /\ UNCHANGED << attempt, result >>
            ELSE /\ LoopNext(t)
                 /\ UNCHANGED sleeps
    /\ UNCHANGED << file, dify_api_key, client, max_workers, mpc, query_list, nsub, yielded, cur, error_info >>
    /\ UNCHANGED mainVars

\* The backoff sleep of task t is over.
Wake(t) ==
    /\ tpc[t] = "sleep"
    /\ LoopNext(t)
    /\ UNCHANGED << file, dify_api_key, client, max_workers, mpc, query_list, nsub, yielded, cur, error_info,
                    calls, sleeps, last, usable >>
    /\ UNCHANGED mainVars

\* Mutant: the worker of task t itself notes the thread error in error_info.
Fault_records(t) ==
    /\ tpc[t] \in {"call", "sleep"}
    /\ tpc' = [tpc EXCEPT ![t] = "raised"]
    /\ error_info' = error_info \cup { [query |-> query_list[t], reason |-> "thread error"] }
    /\ UNCHANGED << file, dify_api_key, client, max_workers, mpc, query_list, nsub, yielded, cur,
                    attempt, calls, sleeps, last, usable, result >>
    /\ UNCHANGED mainVars

\* An exception escapes chat (its statements outside the try block): the
\* future of task t holds the exception instead of a result.
Fault(t) ==
    /\ tpc[t] \in {"call", "sleep"}
    /\ tpc' = [tpc EXCEPT ![t] = "raised"]
    /\ UNCHANGED << file, dify_api_key, client, max_workers, mpc, query_list, nsub, yielded, cur, error_info,
                    attempt, calls, sleeps, last, usable, result >>
    /\ UNCHANGED mainVars

\* --------------------------------------------------------------- thread_chat
\* os.getenv("DIFY_API_KEY", <placeholder text>)
getenv_key(env) == IF env = Unset THEN "placeholder" ELSE env

\* setup_dify_client: DifyClient(api_key=...) stores the key and never raises.
setup_dify_client(env) == [api_key |-> getenv_key(env)]

\* thread_chat up to its executor: the shared client is built.
SetupClient ==
    /\ mpc = "setup"
    /\ client' = setup_dify_client(dify_api_key)
    /\ mpc' = "submit"
    /\ UNCHANGED << file, dify_api_key, max_workers, query_list, nsub, yielded, cur, error_info >>
    /\ UNCHANGED taskVars
    /\ UNCHANGED mainVars

\* executor.submit(chat, query, client) for the next query of the list; after
\* the last one thread_chat waits in as_completed.
Submit ==
    /\ mpc = "submit"
    /\ nsub < N
    /\ nsub' = nsub + 1
    /\ tpc' = [tpc EXCEPT ![nsub + 1] = "queued"]
    /\ mpc' = IF nsub + 1 = N THEN "wait" ELSE "submit"
    /\ UNCHANGED << file, dify_api_key, client, max_workers, query_list, yielded, cur, error_info,
                    attempt, calls, sleeps, last, usable, result >>
    /\ UNCHANGED mainVars

InYielded(t) == \E i \in 1 .. Len(yielded) : yielded[i].task = t

\* Mutant: no except clause, the future's result is unpacked whatever it holds.
FutureOutcome_noexcept(t) ==
    [q |-> result[t].q, r |-> result[t].r, success |-> result[t].success, task |-> t]

\* The outcome thread_chat yields for the finished future of task t.
FutureOutcome(t) ==
    IF tpc[t] = "returned" /\ result[t].success
    THEN [q |-> result[t].q, r |-> result[t].r, success |-> TRUE, task |-> t]
    ELSE [q |-> query_list[t], r |-> <<>>, success |-> FALSE, task |-> t]

\* error_info[query] = reason, for a future that failed or raised.
ErrorInfoAfter(t) ==
    IF tpc[t] = "returned" /\ result[t].success
    THEN error_info
    ELSE { e \in error_info : e.query # query_list[t] }
         \cup { [query |-> query_list[t],
                 reason |-> IF tpc[t] = "raised" THEN "thread error" ELSE "all retries failed"] }

\* Mutant: the futures are handed out in submission order.
CanYield_inorder(t) == t \in Finished /\ ~InYielded(t) /\ t = Len(yielded) + 1

\* as_completed hands out any done future it has not handed out yet.
CanYield(t) == t \in Finished /\ ~InYielded(t)

\* One iteration of `for future in as_completed(...)`, up to its yield.
Yield(t) ==
    /\ mpc = "wait"
    /\ CanYield(t)
    /\ yielded' = Append(yielded, FutureOutcome(t))
    /\ cur' = FutureOutcome(t)
    /\ error_info' = ErrorInfoAfter(t)
    /\ mpc' = "body"
    /\ UNCHANGED << file, dify_api_key, client, max_workers, query_list, nsub >>
    /\ UNCHANGED taskVars
    /\ UNCHANGED mainVars

\* ---------------------------------------------------------------------- main
\* Mutant: only the spaces are removed.
format_keepnl(answer) == Remove(answer, " ")

\* write_result's transform of the answer.
format(answer) == Remove(Remove(answer, "\n"), " ")

RecordLines(q, r) ==
    << Line("query", q, 0), Line("answer", format(r), 0), Line("rule", <<>>, 0) >>

\* write_result(q, r, f) when its fail_at-th file operation raises (the three
\* writes, then the flush; 0: none does): the lines that reached the file and
\* the value returned.
write_result(q, r, fail_at) ==
    [ ok |-> fail_at = 0,
      lines |-> IF fail_at = 0 \/ fail_at > 3 THEN RecordLines(q, r)
                ELSE SubSeq(RecordLines(q, r), 1, fail_at - 1) ]

\* `if success and r`
WritePath(out) == out.success /\ out.r # <<>>

\* Mutant: the count goes up whether or not the write succeeded.
CountAfter_nocheck(sc, path, ok) == IF path THEN sc + 1 ELSE sc

\* success_count after one iteration of main's loop.
CountAfter(sc, path, ok) == IF path /\ ok THEN sc + 1 ELSE sc

\* Mutant: a failed write is not recorded.
ErrorsAfter_nowrite(errs, q, path, ok) == IF path THEN errs ELSE Append(errs, q)

\* error_query_list after one iteration of main's loop.
ErrorsAfter(errs, q, path, ok) == IF path /\ ok THEN errs ELSE Append(errs, q)

\* The body of main's loop for the outcome just yielded.
MainBody ==
    /\ mpc = "body"
    /\ \E fail_at \in 0 .. 4 :
         LET path == WritePath(cur)
             w == write_result(cur.q, cur.r, fail_at)
         IN  /\ sink' = IF path THEN sink \o w.lines ELSE sink
             /\ success_count' = CountAfter(success_count, path, w.ok)
             /\ error_query_list' = ErrorsAfter(error_query_list, cur.q, path, w.ok)
             /\ wlog' = Append(wlog, IF ~path THEN "none" ELSE IF w.ok THEN "ok" ELSE "failed")
    /\ mpc' = "wait"
    /\ UNCHANGED << file, dify_api_key, client, max_workers, query_list, nsub, yielded, cur, error_info,
                    sink_open, failed_file, summary >>
    /\ UNCHANGED taskVars

\* Every future has been yielded: the generator ends and result.txt is closed.
EndStream ==
    /\ mpc = "wait"
    /\ Len(yielded) = N
    /\ sink_open' = FALSE
    /\ mpc' = "failures"
    /\ UNCHANGED << file, dify_api_key, client, max_workers, query_list, nsub, yielded, cur, error_info,
                    sink, success_count, error_query_list, wlog, failed_file, summary >>
    /\ UNCHANGED taskVars

\* failed_queries.txt as main writes it: the count of its header, then the
\* queries.
FailedFile(errs) == [written |-> TRUE, count |-> Len(errs), body |-> errs]

\* Mutant: the failures file is written unconditionally.
WritesFailedFile_always(errs) == TRUE

\* `if error_query_list:`
WritesFailedFile(errs) == errs # <<>>

\* main, step 3.
WriteFailures ==
    /\ mpc = "failures"
    /\ failed_file' = IF WritesFailedFile(error_query_list)
                      THEN FailedFile(error_query_list) ELSE failed_file
    /\ mpc' = "notify"
    /\ UNCHANGED << file, dify_api_key, client, max_workers, query_list, nsub, yielded, cur, error_info,
                    sink, sink_open, success_count, error_query_list, wlog, summary >>
    /\ UNCHANGED taskVars

\* show_completion_notification(total_queries, success_count)
show_completion_notification(total, sc) ==
    [shown |-> TRUE, total |-> total, succeeded |-> sc, failed |-> total - sc]

\* main, step 4.
Notify ==
    /\ mpc = "notify"
    /\ summary' = show_completion_notification(N, success_count)
    /\ mpc' = "done"
    /\ UNCHANGED << file, dify_api_key, client, max_workers, query_list, nsub, yielded, cur, error_info,
                    sink, sink_open, success_count, error_query_list, wlog, failed_file >>
    /\ UNCHANGED taskVars

\* ----------------------------------------------------------------- chat stub
\* Answers a stubbed chat returns.
StubAnswers == { <<>>, <<"h", "\n", "w", " ">> }

\* chat replaced by a stub that returns at once, with any answer and either
\* success flag, for the query it was given.
StubChat(t) ==
    /\ tpc[t] = "call"
    /\ \E a \in StubAnswers, ok \in BOOLEAN :
         result' = [result EXCEPT ![t] =
                      [q |-> query_list[t], r |-> a, success |-> ok, set |-> TRUE]]
    /\ tpc' = [tpc EXCEPT ![t] = "returned"]
    /\ UNCHANGED << file, dify_api_key, client, max_workers, mpc, query_list, nsub, yielded, cur, error_info,
                    attempt, calls, sleeps, last, usable >>
    /\ UNCHANGED mainVars

\* ------------------------------------------------------------ specifications
WorkerStep(t) == Start(t) \/ Call(t) \/ Wake(t)

MainStep ==
    \/ ReadTxt
    \/ OpenResult
    \/ SetupClient
    \/ Submit
    \/ \E t \in Tasks : Yield(t)
    \/ MainBody
    \/ EndStream
    \/ WriteFailures
    \/ Notify

Next ==
    \/ MainStep
    \/ \E t \in Tasks : WorkerStep(t)
    \/ \E t \in Tasks : Fault(t)

Spec == Init /\ [][Next]_vars

\* ------------------------------------------------- write_result on any answer
\* The characters answers are made of: a letter, a space, a newline.
AnswerChars == { "h", " ", "\n" }

AnyAnswers == SeqsUpTo(AnswerChars, MaxAnswerLen)

AnswerLines(ls) == { i \in 1 .. Len(ls) : ls[i].tag = "answer" }

\* main inside its loop, about to handle the successful outcome of its only
\* query, whose answer is any string.
InitFormat ==
    /\ file = [exists |-> TRUE, lines |-> << <<"a">> >>]
    /\ dify_api_key = SetKey
    /\ client = setup_dify_client(SetKey)
    /\ max_workers = 1
    /\ mpc = "body"
    /\ query_list = << <<"a">> >>
    /\ nsub = 1
    /\ tpc = [t \in Tasks |-> IF t = 1 THEN "returned" ELSE "idle"]
    /\ attempt = [t \in Tasks |-> 0]
    /\ calls = [t \in Tasks |-> 0]
    /\ sleeps = [t \in Tasks |-> <<>>]
    /\ last = [t \in Tasks |-> NoResponse]
    /\ usable = [t \in Tasks |-> <<>>]
    /\ \E a \in AnyAnswers :
          /\ result = [t \in Tasks |->
                         IF t = 1 THEN [q |-> <<"a">>, r |-> a, success |-> TRUE, set |-> TRUE]
                         ELSE NoResult]
          /\ cur = [q |-> <<"a">>, r |-> a, success |-> TRUE, task |-> 1]
          /\ yielded = << [q |-> <<"a">>, r |-> a, success |-> TRUE, task |-> 1] >>
    /\ error_info = {}
    /\ sink = << Line("time", <<>>, 0), Line("total", <<>>, 1), Line("rule", <<>>, 0) >>
    /\ sink_open = TRUE
    /\ success_count = 0
    /\ error_query_list = <<>>
    /\ wlog = <<>>
    /\ failed_file = NotWritten
    /\ summary = NoSummary

\* The answer line write_result produced is handed to main's loop body again,
\* as the answer of the same query.
Refeed ==
    /\ mpc = "wait"
    /\ Len(wlog) = 1
    /\ \E i \in AnswerLines(sink) : cur' = [cur EXCEPT !.r = sink[i].text]
    /\ mpc' = "body"
    /\ UNCHANGED << file, dify_api_key, client, max_workers, query_list, nsub, yielded,
                    error_info >>
    /\ UNCHANGED taskVars
    /\ UNCHANGED mainVars

NextFormat == MainBody \/ Refeed

SpecFormat == InitFormat /\ [][NextFormat]_vars

\* ------------------------------------------- thread_chat, progress bar failing
\* error_info[query] = "thread error ...", written by the except clause.
ThreadError(t) ==
    { e \in error_info : e.query # query_list[t] }
    \cup { [query |-> query_list[t], reason |-> "thread error"] }

\* One iteration of the as_completed loop in which pbar.update or
\* pbar.set_postfix raises inside the try block, after future.result() has
\* returned: the except clause takes over, its own pbar calls work, and it
\* yields (query, "", False).
YieldAfterPbarError(t) ==
    /\ mpc = "wait"
    /\ CanYield(t)
    /\ tpc[t] = "returned"
    /\ yielded' = Append(yielded, [q |-> query_list[t], r |-> <<>>, success |-> FALSE, task |-> t])
    /\ cur' = [q |-> query_list[t], r |-> <<>>, success |-> FALSE, task |-> t]
    /\ error_info' = ThreadError(t)
    /\ mpc' = "body"
    /\ UNCHANGED << file, dify_api_key, client, max_workers, query_list, nsub >>
    /\ UNCHANGED taskVars
    /\ UNCHANGED mainVars

\* One iteration of the as_completed loop in which pbar.update or
\* pbar.set_postfix raises inside the except clause (entered because the
\* future raised or because a pbar call of the try block did): the exception
\* leaves the generator before its yield, main's `with open` closes
\* result.txt and main's handler ends the run.
PbarErrorInHandler(t) ==
    /\ mpc = "wait"
    /\ CanYield(t)
    /\ error_info' = ThreadError(t)
    /\ sink_open' = FALSE
    /\ mpc' = "aborted"
    /\ UNCHANGED << file, dify_api_key, client, max_workers, query_list, nsub, yielded, cur >>
    /\ UNCHANGED taskVars
    /\ UNCHANGED << sink, success_count, error_query_list, wlog, failed_file, summary >>

NextObs ==
    \/ Next
    \/ \E t \in Tasks : YieldAfterPbarError(t)
    \/ \E t \in Tasks : PbarErrorInHandler(t)

SpecObs == Init /\ [][NextObs]_vars

\* The program started with or without DIFY_API_KEY.
SpecCred == InitCred /\ [][Next]_vars

\* thread_chat and main over stubbed chat tasks, which return any outcome or
\* raise.
StubWorkerStep(t) == Start(t) \/ StubChat(t)

NextStub ==
    \/ MainStep
    \/ \E t \in Tasks : StubWorkerStep(t)
    \/ \E t \in Tasks : Fault(t)

SpecStub == Init /\ [][NextStub]_vars

\* chat over a client that may fail in every way, with no fault outside
\* chat's try block.
NextClient ==
    \/ MainStep
    \/ \E t \in Tasks : WorkerStep(t)
    \/ \E t \in Tasks : CallRaises(t)

SpecClient == Init /\ [][NextClient]_vars

\* Each task runs chat as written or the stub, so that a task can be in its
\* backoff sleep while another one returns an answer.
NextMixed ==
    \/ Next
    \/ \E t \in Tasks : StubChat(t)

SpecMixed == Init /\ [][NextMixed]_vars

\* Threads that can run do run, and every client call returns: each worker
\* and main keep taking their steps. A fault is never forced.
FairSpec ==
    /\ Spec
    /\ WF_vars(MainStep)
    /\ \A t \in Tasks : WF_vars(WorkerStep(t))

\* ------------------------------------------------------------------- helpers
AllFailed(t) == \A i \in 1 .. Len(usable[t]) : ~usable[t][i]

\* The answer chat extracted from the client's last response to task t.
LastAnswer(t) == GetAnswer(run_chat(last[t]))

RECURSIVE Count(_, _)
Count(seq, x) ==
    IF seq = <<>> THEN 0
    ELSE (IF Head(seq) = x THEN 1 ELSE 0) + Count(Tail(seq), x)

Submitted == 1 .. N

\* ------------------------------------------------------------------- claims
\* C1 (as claimed): a task whose first client call returned a non-empty answer
\* has returned (query, that answer, True) after exactly one call and no sleep.
C1_ImmediateSuccess ==
    \A t \in Tasks :
        (calls[t] >= 1 /\ usable[t][1]) =>
            /\ tpc[t] = "returned"
            /\ result[t] = [q |-> query_list[t], r |-> LastAnswer(t),
                            success |-> TRUE, set |-> TRUE]
            /\ calls[t] = 1
            /\ sleeps[t] = <<>>

\* C2: chat never makes more than max_retries client calls; the call about to
\* be made is attempt number calls[t] (attempts 0, 1, 2 in order) and a
\* sleeping task has made attempt + 1 calls; a task whose client failed every
\* call returns only after exactly max_retries calls, with (query, "", False).
C2_RetryTermination ==
    \A t \in Tasks :
        /\ calls[t] <= max_retries
        /\ Len(usable[t]) = calls[t]
        /\ tpc[t] = "call" => attempt[t] = calls[t]
        /\ tpc[t] = "sleep" => attempt[t] = calls[t] - 1
        /\ (tpc[t] = "returned" /\ AllFailed(t)) =>
              /\ calls[t] = max_retries
              /\ result[t] = Failure(t)

\* C2's case: the client failed three calls and chat returned the failure.
C2_Witness ==
    \E t \in Tasks :
        /\ tpc[t] = "returned"
        /\ calls[t] = 3
        /\ AllFailed(t)
        /\ last[t].status = 0
        /\ result[t] = [q |-> <<"a">>, r |-> <<>>, success |-> FALSE, set |-> TRUE]

\* C3 (as claimed): once the client has failed attempts 0 and 1 and answered
\* on attempt 2, chat has slept 1 then 2 and returned that answer with True.
C3_BackoffGrowth ==
    \A t \in Tasks :
        usable[t] = << FALSE, FALSE, TRUE >> =>
            /\ sleeps[t] = << 1, 2 >>
            /\ tpc[t] = "returned"
            /\ result[t] = [q |-> query_list[t], r |-> LastAnswer(t),
                            success |-> TRUE, set |-> TRUE]

\* A 200 response whose answer is absent, empty or blank.
EmptyOk(resp) ==
    /\ resp.status = 200
    /\ \/ ~resp.has_answer
       \/ resp.answer = <<>>
       \/ \A i \in 1 .. Len(resp.answer) : IsSpace(resp.answer[i])

\* C4: after a 200 response with an absent, empty or blank answer the task has
\* not succeeded; while attempts remain it is backing off for 2^attempt (or
\* already retrying, or hit by a fault), and it returns only when that was the
\* last attempt, with (query, "", False).
C4_EmptyAnswerIsFailure ==
    \A t \in Tasks :
        EmptyOk(last[t]) =>
            /\ ~result[t].success
            /\ ~usable[t][Len(usable[t])]
            /\ calls[t] < max_retries => tpc[t] \in {"sleep", "call", "raised"}
            /\ tpc[t] = "sleep" =>
                  /\ Len(sleeps[t]) = calls[t]
                  /\ sleeps[t][calls[t]] = sleep_time(calls[t] - 1)
            /\ tpc[t] = "call" => attempt[t] = calls[t]
            /\ tpc[t] = "returned" => result[t] = Failure(t) /\ calls[t] = max_retries

\* C4's case: the first call got a 200 with an empty answer, the task slept
\* and is about to retry.
C4_Witness ==
    \E t \in Tasks :
        /\ last[t] = [status |-> 200, has_answer |-> TRUE, answer |-> <<>>]
        /\ calls[t] = 1
        /\ sleeps[t] = << 1 >>
        /\ tpc[t] = "call"
        /\ attempt[t] = 1

Raised == { t \in Tasks : tpc[t] = "raised" }

\* The positions of yielded that hold task t's outcome.
OutcomesOf(t) == { i \in 1 .. Len(yielded) : yielded[i].task = t }

AfterLoop == mpc \in {"failures", "notify", "done"}

\* C5: thread_chat yields at most one outcome per submitted query, each for
\* its own query; every outcome main has handled is counted exactly once, in
\* success_count or in error_query_list; and once the stream is drained there
\* are exactly N outcomes and success_count + len(error_query_list) = N.
C5_TotalAccounting ==
    /\ Len(yielded) <= N
    /\ \A t \in Tasks : Cardinality(OutcomesOf(t)) <= 1
    /\ \A i \in 1 .. Len(yielded) :
          /\ yielded[i].task \in Submitted
          /\ yielded[i].q = query_list[yielded[i].task]
    /\ success_count + Len(error_query_list) = Len(wlog)
    /\ Len(yielded) - Len(wlog) = (IF mpc = "body" THEN 1 ELSE 0)
    /\ AfterLoop =>
          /\ Len(yielded) = N
          /\ \A t \in Submitted : Cardinality(OutcomesOf(t)) = 1
          /\ success_count + Len(error_query_list) = N

\* C5's case: a drained batch of two, one task raised and the other's record
\* written.
C5_Witness ==
    /\ mpc = "done"
    /\ N = 2
    /\ Raised # {}
    /\ \E i \in 1 .. 2 : wlog[i] = "ok"
    /\ success_count = 1
    /\ Len(error_query_list) = 1

\* C6: the outcome of a task that raised is (its query, "", False); a raised
\* task never aborts main, never leaves the run stuck, and at the end every
\* submitted query, raised or not, has exactly one outcome of its own.
C6_FaultIsolation ==
    /\ \A i \in 1 .. Len(yielded) :
          LET t == yielded[i].task
          IN  /\ tpc[t] = "raised" =>
                    yielded[i] = [q |-> query_list[t], r |-> <<>>, success |-> FALSE, task |-> t]
              /\ tpc[t] = "returned" =>
                    /\ yielded[i].q = result[t].q
                    /\ yielded[i].success = result[t].success
    /\ Raised # {} =>
          /\ mpc # "aborted"
          /\ mpc # "done" => ENABLED Next
          /\ mpc = "done" => \A t \in Submitted : Cardinality(OutcomesOf(t)) = 1

\* C6's case: of two tasks the first raised, the second ran its three
\* attempts, and both outcomes were yielded and handled.
C6_Witness ==
    /\ mpc = "done"
    /\ N = 2
    /\ tpc[1] = "raised"
    /\ tpc[2] = "returned"
    /\ calls[2] = 3
    /\ Len(yielded) = 2
    /\ yielded[1].task = 1

\* The text of the "query:" lines of result.txt, in order.
RECURSIVE SinkQueries(_)
SinkQueries(ls) ==
    IF ls = <<>> THEN <<>>
    ELSE (IF Head(ls).tag = "query" THEN << Head(ls).text >> ELSE <<>>) \o SinkQueries(Tail(ls))

FirstTry == { t \in Submitted : tpc[t] = "returned" /\ usable[t][1] }
NeverAnswered == { t \in Submitted : tpc[t] = "returned" /\ AllFailed(t) }

\* C7 (as claimed): after a run in which every query's client either answered
\* the first attempt or failed every attempt, and no write failed, result.txt holds one record per
\* first-attempt query, failed_queries.txt lists exactly the others, and the
\* summary is {N, succeeded, failed}.
C7_OutcomePartition ==
    (/\ mpc = "done"
     /\ FirstTry \cup NeverAnswered = Submitted
     /\ \A i \in 1 .. Len(wlog) : wlog[i] # "failed") =>
        /\ \A t \in Submitted :
              Count(SinkQueries(sink), query_list[t])
                 = Cardinality({ u \in FirstTry : query_list[u] = query_list[t] })
        /\ \A t \in Submitted :
              Count(failed_file.body, query_list[t])
                 = Cardinality({ u \in NeverAnswered : query_list[u] = query_list[t] })
        /\ failed_file.written = (NeverAnswered # {})
        /\ summary = [shown |-> TRUE, total |-> N,
                      succeeded |-> Cardinality(FirstTry),
                      failed |-> Cardinality(NeverAnswered)]

\* C8: once query.txt has been read, main eventually has handled an outcome
\* for every query and shown the summary with total = N.
C8_RunCompletes ==
    (mpc = "open") ~>
        /\ mpc = "done"
        /\ Len(wlog) = N
        /\ summary.shown
        /\ summary.total = N
        /\ summary.succeeded + summary.failed = N

\* C8's case: a finished run of two queries, one lost to a task fault and one
\* to three failed attempts ending in a non-200 status.
C8_Witness ==
    /\ mpc = "done"
    /\ summary = [shown |-> TRUE, total |-> 2, succeeded |-> 0, failed |-> 2]
    /\ Raised # {}
    /\ \E t \in Tasks : tpc[t] = "returned" /\ calls[t] = 3 /\ last[t].status = 500

\* C9: the loop iteration of main for an outcome with success=True and a
\* non-empty answer either writes the whole record and adds one to
\* success_count, or, the write failing, appends the query to
\* error_query_list and leaves success_count alone; either way main is back
\* at the stream for the next outcome.
C9_WriteFailureReclassified ==
    [][ (mpc = "body" /\ mpc' # "body" /\ cur.success /\ cur.r # <<>>) =>
          /\ mpc' = "wait"
          /\ Len(wlog') = Len(wlog) + 1
          /\ wlog'[Len(wlog')] \in {"ok", "failed"}
          /\ wlog'[Len(wlog')] = "ok" =>
                /\ sink' = sink \o << Line("query", cur.q, 0),
                                      Line("answer", format(cur.r), 0),
                                      Line("rule", <<>>, 0) >>
                /\ success_count' = success_count + 1
                /\ error_query_list' = error_query_list
          /\ wlog'[Len(wlog')] = "failed" =>
                /\ success_count' = success_count
                /\ error_query_list' = Append(error_query_list, cur.q)
      ]_vars

\* C9's case: the first outcome's write failed, main went on, and the second
\* outcome was written and counted.
C9_Witness ==
    /\ mpc = "done"
    /\ wlog = << "failed", "ok" >>
    /\ success_count = 1
    /\ error_query_list = << yielded[1].q >>
    /\ SinkQueries(sink)[Len(SinkQueries(sink))] = yielded[2].q

\* An outcome main handled for which no record was persisted.
FailedOutcome(i) == ~yielded[i].success \/ yielded[i].r = <<>> \/ wlog[i] = "failed"

\* The queries of the first n outcomes that failed, in the order handled.
RECURSIVE FailedQueries(_)
FailedQueries(n) ==
    IF n = 0 THEN <<>>
    ELSE FailedQueries(n - 1) \o (IF FailedOutcome(n) THEN << yielded[n].q >> ELSE <<>>)

\* C10: failed_queries.txt exists only after the whole stream was handled and
\* only with at least one failed query; its header count is the number of
\* failed queries and its body is exactly those queries in the order their
\* outcomes were handled; after a run without failures it does not exist.
C10_FailuresFile ==
    /\ failed_file.written =>
          /\ mpc \in {"notify", "done"}
          /\ Len(wlog) = N
          /\ FailedQueries(N) # <<>>
          /\ failed_file.count = Len(FailedQueries(N))
          /\ failed_file.body = FailedQueries(N)
    /\ (mpc \in {"notify", "done"} /\ FailedQueries(N) = <<>>) => failed_file = NotWritten

\* C10's case: both queries failed, the second submitted first to complete,
\* and the file lists them in that order.
C10_Witness ==
    /\ failed_file = [written |-> TRUE, count |-> 2, body |-> << <<"b">>, <<"a">> >>]
    /\ query_list = << <<"a">>, <<"b">> >>

\* query.txt is missing, or every one of its lines is empty or blank.
NoQueries(f) ==
    \/ ~f.exists
    \/ \A i \in 1 .. Len(f.lines) :
          \A j \in 1 .. Len(f.lines[i]) : f.lines[i][j] \in {" ", "\n"}

\* C11: with query.txt missing or holding only blank lines main goes from
\* reading straight to its error handler: no task is ever submitted or
\* started, no client call is made, result.txt is never opened or written,
\* and no client is built; and main is aborted at startup only for that reason.
C11_FatalStartupOnInput ==
    /\ NoQueries(file) =>
          /\ mpc \in {"read", "aborted"}
          /\ query_list = <<>>
          /\ nsub = 0
          /\ \A t \in Tasks : tpc[t] = "idle" /\ calls[t] = 0
          /\ sink = <<>>
          /\ ~sink_open
          /\ client = NoClient
          /\ yielded = <<>>
    /\ (mpc = "aborted" /\ nsub = 0) => NoQueries(file)

\* C11's case: a file of two blank lines, and main in its error handler.
C11_Witness ==
    /\ file = [exists |-> TRUE, lines |-> << <<" ">>, <<" ">> >>]
    /\ mpc = "aborted"

\* C12 (as claimed): without DIFY_API_KEY the run fails at initialization:
\* nothing is written to result.txt, no query is submitted, and no client
\* call is ever made on the missing key's behalf.
C12_FatalStartupOnCredential ==
    dify_api_key = Unset =>
        /\ sink = <<>>
        /\ nsub = 0
        /\ \A t \in Tasks : calls[t] = 0
        /\ mpc \in {"read", "open", "setup", "aborted"}

NoBlank(text) == \A j \in 1 .. Len(text) : text[j] # " " /\ text[j] # "\n"

C14_ProgressAdvisory ==
    /\ mpc = "aborted" => nsub = 0
    /\ \A i \in 1 .. Len(yielded) : yielded[i] = FutureOutcome(yielded[i].task)

\* C15: every yielded outcome belongs to a task that has terminated, and
\* while thread_chat waits in as_completed every terminated task whose
\* outcome has not been yielded can be yielded at once, whatever the other
\* tasks are doing and whatever its place in the submission order.
C15_CompletionOrderStreaming ==
    /\ \A i \in 1 .. Len(yielded) : tpc[yielded[i].task] \in {"returned", "raised"}
    /\ mpc = "wait" =>
          \A t \in Tasks :
              (tpc[t] \in {"returned", "raised"} /\ ~InYielded(t)) => ENABLED Yield(t)
    /\ \A t \in Tasks : tpc[t] \notin {"returned", "raised"} => ~ENABLED Yield(t)

\* C15's case: the second query's outcome was yielded first, while the task
\* of the first query is still running.
C15_Witness ==
    /\ Len(yielded) = 1
    /\ yielded[1].task = 2
    /\ tpc[1] \in {"call", "sleep"}

InChat == { t \in Tasks : tpc[t] = "call" \/ tpc[t] = "sleep" }

\* C16: at most max_workers tasks are inside chat (attempting or in their
\* backoff sleep), so at most max_workers client requests are in flight; a
\* submitted task that has not started cannot start while max_workers tasks
\* are inside chat.
C16_BoundedConcurrency ==
    /\ Cardinality(InChat) <= max_workers
    /\ Cardinality({ t \in Tasks : tpc[t] = "call" }) <= max_workers
    /\ \A t \in Tasks :
          (tpc[t] = "queued" /\ Cardinality(InChat) = max_workers) => ~ENABLED Start(t)

\* C16's case: one worker, two queries; the first is in its backoff sleep and
\* the second waits in the queue.
C16_Witness ==
    /\ max_workers = 1
    /\ tpc[1] = "sleep"
    /\ tpc[2] = "queued"

Sleeping == { t \in Tasks : tpc[t] = "sleep" }

\* C17: while a task is in its backoff sleep, every other task that is
\* about to call the client can call it, every other sleeping task can wake,
\* every done future can be yielded when main pulls, main can handle the
\* outcome it holds, and the oldest queued task can start exactly when the
\* tasks inside chat, the sleeping one counted once, leave a thread free.
C17_BackoffLocal ==
    \A t \in Sleeping :
        /\ \A u \in Tasks \ {t} :
              /\ tpc[u] = "call" => ENABLED Call(u)
              /\ tpc[u] = "sleep" => ENABLED Wake(u)
              /\ (mpc = "wait" /\ tpc[u] \in {"returned", "raised"} /\ ~InYielded(u))
                    => ENABLED Yield(u)
              /\ (tpc[u] = "queued" /\ \A v \in Tasks : tpc[v] = "queued" => u <= v)
                    => (ENABLED Start(u) <=> Cardinality(InChat \ {t}) + 1 < max_workers)
        /\ mpc = "body" => ENABLED MainBody
        /\ ENABLED Wake(t)

\* C17's case: the first query's task is in its first backoff sleep and the
\* record of the second query, submitted after it, is already in result.txt.
C17_Witness ==
    /\ tpc[1] = "sleep"
    /\ sleeps[1] = << 1 >>
    /\ success_count = 1
    /\ \E i \in AnswerLines(sink) : TRUE

\* What only the thread of main may touch: result.txt, failed_queries.txt,
\* success_count, error_query_list and thread_chat's error_info.
consumerVars == << sink, sink_open, failed_file, success_count, error_query_list, error_info >>

\* A step of a pool thread: the state of some task changes.
TaskStep == << tpc, attempt, calls, sleeps, last, usable, result >>' # << tpc, attempt, calls, sleeps, last, usable, result >>

\* C18: a step that changes result.txt, failed_queries.txt, success_count,
\* error_query_list or error_info is a step of main, taken at one of main's
\* own program points, and it changes the state of no task; so every step
\* of a pool thread leaves all five as they are.
C18_SingleWriter ==
    [][ /\ (consumerVars' # consumerVars) =>
              /\ mpc \in {"open", "wait", "body", "failures"}
              /\ mpc' # mpc
              /\ \A t \in Tasks : tpc'[t] = tpc[t] \/ (tpc[t] = "idle" /\ tpc'[t] = "queued")
              /\ << attempt, calls, sleeps, last, usable, result >>' = << attempt, calls, sleeps, last, usable, result >>
        /\ (\E t \in Tasks : tpc[t] \in {"queued", "call", "sleep"} /\ tpc'[t] # tpc[t])
              => consumerVars' = consumerVars
        /\ (<< attempt, calls, sleeps, last, usable, result >>' # << attempt, calls, sleeps, last, usable, result >>)
              => consumerVars' = consumerVars
      ]_vars

\* C18's case: the first query's task has made two client calls and sleeps,
\* while main has recorded the failure of the second query.
C18_Witness ==
    /\ tpc[1] = "sleep"
    /\ calls[1] = 2
    /\ Len(error_query_list) = 1
    /\ error_info # {}

\* C19: run_chat turns a transport error and a non-200 response into its
\* error value; whatever the client did on the last call of a task short of
\* a 200 response (transport error, non-200, exception in the call or in
\* parsing), the call counts as one failed attempt, the task backs off for
\* 2^attempt while attempts remain and returns (query, "", False) only
\* after the last one; every sleep so far is 2^attempt whatever failed; and
\* no future ever holds an exception.
C19_UniformFailureAbsorption ==
    \A t \in Tasks :
        /\ tpc[t] # "raised"
        /\ Len(usable[t]) = calls[t]
        /\ \A i \in 1 .. Len(sleeps[t]) : sleeps[t][i] = Pow2(i - 1)
        /\ last[t].status \in {0, 500} => run_chat(last[t]) = ErrorDict
        /\ (calls[t] >= 1 /\ last[t].status # 200) =>
              /\ ~usable[t][calls[t]]
              /\ ~result[t].success
              /\ calls[t] < max_retries => tpc[t] \in {"sleep", "call"}
              /\ tpc[t] = "sleep" => Len(sleeps[t]) = calls[t] /\ attempt[t] = calls[t] - 1
              /\ tpc[t] = "call" => Len(sleeps[t]) = calls[t] /\ attempt[t] = calls[t]
              /\ tpc[t] = "returned" =>
                    /\ calls[t] = max_retries
                    /\ Len(sleeps[t]) = max_retries - 1
                    /\ result[t] = Failure(t)

\* C19's case: the second call of a task returned something unparsable and
\* the task is in its second backoff sleep, of 2.
C19_Witness ==
    \E t \in Tasks :
        /\ last[t] = BadResult
        /\ calls[t] = 2
        /\ sleeps[t] = << 1, 2 >>
        /\ tpc[t] = "sleep"

\* C20: every yielded outcome is the only one of a submitted task and
\* carries that task's query; its success flag is True exactly when its
\* answer is non-empty and not blank, and an outcome with success False has
\* the answer ""; so the outcome main holds is never one with success True
\* that its test `success and r` turns down.
C20_OutcomeWellFormed ==
    /\ \A i \in 1 .. Len(yielded) :
          /\ yielded[i].task \in Submitted
          /\ yielded[i].q = query_list[yielded[i].task]
          /\ \A j \in 1 .. Len(yielded) : yielded[j].task = yielded[i].task => j = i
          /\ yielded[i].success <=> ValidAnswer(yielded[i].r)
          /\ ~yielded[i].success => yielded[i].r = <<>>
    /\ mpc = "body" => (cur.success => WritePath(cur))

\* C20's case: two outcomes were yielded, one of a future that raised and
\* one of a task whose last response was a blank answer.
C20_Witness ==
    /\ Len(yielded) = 2
    /\ tpc[yielded[1].task] = "raised"
    /\ tpc[yielded[2].task] = "returned"
    /\ last[yielded[2].task] = [status |-> 200, has_answer |-> TRUE, answer |-> << " " >>]
    /\ yielded[2] = [q |-> << "a" >>, r |-> <<>>, success |-> FALSE, task |-> yielded[2].task]
====
